---- MODULE Spec2Model ----
(***************************************************************************)
(* Model of xray_core/src/fs.rs: the Entry tree (sorted, copy-on-write     *)
(* children behind a lock), its serde codec, the TreeService adapter and    *)
(* the RemoteTree mirror.                                                   *)
(*                                                                          *)
(* An Entry handle is the address of its Arc'd DirInner / FileInner (what   *)
(* Entry::id returns).  A directory's children field is the address of the  *)
(* Vec currently held by its RwLock<Arc<Vec<Entry>>>; a snapshot returned   *)
(* by children() is another strong reference to that same Vec.             *)
(***************************************************************************)
EXTENDS Integers, Sequences, FiniteSets, TLC

\* ------------------------------------------------------------- bounds
\* Addresses available for DirInner / FileInner allocations.
MaxNodes == 4
\* Entries of the tree in the codec and replication runs, its root included.
MaxTree == 3
\* Cap on the updates one connection's poll_update may yield in a run.
MaxUpdates == 2

NodeIds == 1..MaxNodes
\* One reader, holding at most one children() snapshot at a time.
Readers == {1}
VecIds == 1..(MaxNodes + Cardinality(Readers))

\* Entry names are the bytes of an OsString.
\* The name of the tree's root directory ("r").
RootName == <<114>>
\* The (symlink, ignored) pairs the Entry-tree runs build entries with.
EntryFlags == {<<FALSE, FALSE>>}
\* The names the Entry-tree runs use: "a", "ab", "b".
EntryNames == {<<97>>, <<97, 98>>, <<98>>}
\* The codec runs: names whose characters differ from their bytes
\* ("e-acute", two bytes of UTF-8, and a lone 0xFF, which is not valid
\* UTF-8), and flag pairs that tell the two flags apart.
CodecNames == {<<195, 169>>, <<255>>}
CodecFlags == {<<FALSE, FALSE>>, <<TRUE, FALSE>>, <<FALSE, TRUE>>}
\* Encoded entries handed to the decoder from outside: files whose encoded
\* name_chars disagrees with their name, alone and inside a directory, and
\* an empty directory.
WireInputs ==
  <<[variant |-> "File", name |-> <<97>>, name_chars |-> <<98>>,
     symlink |-> FALSE, ignored |-> FALSE],
    [variant |-> "File", name |-> <<255>>, name_chars |-> <<255, 47>>,
     symlink |-> FALSE, ignored |-> TRUE],
    [variant |-> "Dir", name |-> <<195, 169>>, symlink |-> TRUE, ignored |-> FALSE,
     children |-> <<[variant |-> "File", name |-> <<97>>, name_chars |-> <<>>,
                     symlink |-> FALSE, ignored |-> FALSE]>>],
    [variant |-> "Dir", name |-> <<97>>, symlink |-> FALSE, ignored |-> FALSE,
     children |-> <<>>]>>
\* The replication runs: names, and root flags that tell the two apart.
ReplNames == {<<97>>, <<255>>}
RootFlags == {<<TRUE, FALSE>>, <<FALSE, TRUE>>}

VARIABLES
  heap,       \* NodeIds -> DirInner / FileInner record, or NoNode when free
  vecs,       \* VecIds -> the Vec<Entry> stored at that address
  held,       \* entries the caller has built and not yet handed to insert
  snaps,      \* Readers -> the snapshot (Arc<Vec<Entry>>) the reader holds
  call,       \* the last operation called, its arguments and its result
  populated,  \* the tree's populated signal
  service,    \* TreeService.populated of the connection's service
  wire,       \* updates the transport has encoded and not yet delivered
  mirror,     \* RemoteTreeState of the mirror
  hist,       \* observations kept for the properties below
  lock,       \* NodeIds -> the state of the directory's RwLock
  writer,     \* the writer thread's position inside Entry::insert
  reader,     \* the reader thread's position inside Entry::children
  tasks       \* the mirror's foreground tasks: update handler and subscriber

vars == <<heap, vecs, held, snaps, call, populated, service, wire, mirror, hist,
          lock, writer, reader, tasks>>

\* ------------------------------------------------------------ helpers
NoNode == [kind |-> "Free"]
NoVec == [live |-> FALSE, items |-> <<>>]
None == [some |-> FALSE, val |-> <<>>]
Some(x) == [some |-> TRUE, val |-> x]
NoSnap == [vec |-> 0, of |-> 0, taken |-> <<>>]

\* The Tree's root entry (TestTree.root): the first allocation.
TreeRoot == 1

IsLive(h, e) == h[e].kind # "Free"

\* The one element of a singleton set.
Only(S) == CHOOSE x \in S : TRUE

\* The allocator hands out a free address, the address of an allocation
\* that was freed before included; here the lowest free one.
AllocNode(h) == CHOOSE e \in NodeIds : ~IsLive(h, e) /\ \A f \in 1..(e - 1) : IsLive(h, f)
AllocVec(v) == CHOOSE a \in VecIds : ~v[a].live /\ \A b \in 1..(a - 1) : v[b].live

\* OsStr ordering: lexicographic on the bytes.
Less(a, b) ==
  \E i \in 1..(Len(a) + 1) :
     /\ \A j \in 1..(i - 1) : j <= Len(b) /\ a[j] = b[j]
     /\ \/ i = Len(a) + 1 /\ Len(b) >= i
        \/ i <= Len(a) /\ i <= Len(b) /\ a[i] < b[i]

cmp(a, b) == IF a = b THEN "Equal" ELSE IF Less(a, b) THEN "Less" ELSE "Greater"

\* OsStr::to_string_lossy().chars(): UTF-8 decoding of one- and two-byte
\* sequences; any other byte becomes U+FFFD.
RECURSIVE to_string_lossy(_)
to_string_lossy(b) ==
  IF b = <<>> THEN <<>>
  ELSE IF b[1] < 128 THEN <<b[1]>> \o to_string_lossy(Tail(b))
  ELSE IF b[1] \in 194..223 /\ Len(b) >= 2 /\ b[2] \in 128..191
       THEN <<(b[1] - 192) * 64 + (b[2] - 128)>> \o to_string_lossy(Tail(Tail(b)))
  ELSE <<65533>> \o to_string_lossy(Tail(b))

\* The separator pushed after a directory's name characters: '/'.
Separator == 47

\* ------------------------------------------------------- Entry (pure)
FileInner(nm, symlink, ignored) ==
  [kind |-> "File", name |-> nm, name_chars |-> to_string_lossy(nm),
   symlink |-> symlink, ignored |-> ignored]

DirInner(nm, symlink, ignored, vec) ==
  [kind |-> "Dir", name |-> nm, name_chars |-> Append(to_string_lossy(nm), Separator),
   children |-> vec, symlink |-> symlink, ignored |-> ignored]

is_dir(h, e) == h[e].kind = "Dir"
id(e) == e
name(h, e) == h[e].name
name_chars(h, e) == h[e].name_chars
is_symlink(h, e) == h[e].symlink
is_ignored(h, e) == h[e].ignored

\* Entry::children: a clone of the Arc the lock holds, None for a file.
children(h, e) == IF is_dir(h, e) THEN Some(h[e].children) ELSE None

\* The entries of a directory, read through its lock.
child_entries(h, v, e) == v[h[e].children].items

\* RwLock::read: granted unless a writer holds the lock.
read_unguarded(l) == TRUE
read(l) == l # "write"
\* RwLock::write: granted when nobody holds the lock.
write(l) == l = "free"

\* What a reader of the Vec sees while Vec::insert(index, x) runs: after
\* the elements from index on were copied one slot up (the length not yet
\* raised, so the last element is out of sight), and after x was written.
vec_insert_shifted(s, index) ==
  [i \in 1..Len(s) |-> IF i <= index + 1 THEN s[i] ELSE s[i - 1]]
vec_insert_written(s, index, x) == [vec_insert_shifted(s, index) EXCEPT ![index + 1] = x]

\* Arc::strong_count of a Vec: the directory holding it plus the snapshots.
strong_count(h, sn, a) ==
  Cardinality({e \in NodeIds : IsLive(h, e) /\ is_dir(h, e) /\ h[e].children = a})
  + Cardinality({r \in Readers : sn[r].vec = a})

\* slice::binary_search_by: the loop narrowing [base, base + size).
RECURSIVE binary_search_loop(_, _, _, _)
binary_search_loop(s, key, base, size) ==
  IF size > 1
  THEN Only({binary_search_loop(s, key,
                                IF cmp(s[mid + 1], key) = "Greater" THEN base ELSE mid,
                                size - half) :
               half \in {size \div 2}, mid \in {base + size \div 2}})
  ELSE base

\* slice::binary_search_by over the children's names (indices from 0).
binary_search_by(s, key) ==
  IF Len(s) = 0 THEN [found |-> FALSE, index |-> 0]
  ELSE Only({IF cmp(s[base + 1], key) = "Equal"
              THEN [found |-> TRUE, index |-> base]
              ELSE [found |-> FALSE,
                    index |-> base + (IF cmp(s[base + 1], key) = "Less" THEN 1 ELSE 0)] :
               base \in {binary_search_loop(s, key, 0, Len(s))}})

\* Vec::insert writing x over the element at index, nothing shifted.
vec_insert_overwrite(s, index, x) == [s EXCEPT ![index + 1] = x]

\* Vec::insert(index, x), index from 0.
vec_insert(s, index, x) == SubSeq(s, 1, index) \o <<x>> \o SubSeq(s, index + 1, Len(s))

\* make_mut with the copy left out: the shared Vec itself is handed out.
make_mut_in_place(h, v, sn, self) ==
  [heap |-> h, vecs |-> v, vec |-> h[self].children, cloned |-> FALSE]

\* make_mut whose clone of a shared Vec copies the first entry instead of
\* sharing it: the two Vecs no longer hold the same node (the new
\* allocation is left with the snapshot).
make_mut_deep(h, v, sn, self) ==
  IF strong_count(h, sn, h[self].children) > 1
  THEN IF v[h[self].children].items # <<>> /\ \E n \in NodeIds : ~IsLive(h, n)
       THEN Only({[heap |-> [h EXCEPT ![self].children = a,
                                      ![n] = h[v[h[self].children].items[1]]],
                   vecs |-> [v EXCEPT ![a] = [live |-> TRUE,
                                              items |-> v[h[self].children].items],
                                      ![h[self].children].items[1] = n],
                   vec |-> a, cloned |-> TRUE] :
                    a \in {AllocVec(v)}, n \in {AllocNode(h)}})
       ELSE Only({[heap |-> [h EXCEPT ![self].children = a],
                   vecs |-> [v EXCEPT ![a] = [live |-> TRUE,
                                              items |-> v[h[self].children].items]],
                   vec |-> a, cloned |-> TRUE] : a \in {AllocVec(v)}})
  ELSE [heap |-> h, vecs |-> v, vec |-> h[self].children, cloned |-> FALSE]

\* make_mut cloning the Vec whether or not it is shared.
make_mut_always_clones(h, v, sn, self) ==
  Only({[heap |-> [h EXCEPT ![self].children = a],
         vecs |-> [v EXCEPT ![a] = [live |-> TRUE, items |-> v[h[self].children].items]],
         vec |-> a, cloned |-> TRUE] : a \in {AllocVec(v)}})

\* Arc::make_mut on a directory's children: clone the Vec to a fresh
\* address when another strong reference exists, else keep the sole copy.
make_mut(h, v, sn, self) ==
  IF strong_count(h, sn, h[self].children) > 1
  THEN Only({[heap |-> [h EXCEPT ![self].children = a],
              vecs |-> [v EXCEPT ![a] = [live |-> TRUE, items |-> v[h[self].children].items]],
              vec |-> a, cloned |-> TRUE] : a \in {AllocVec(v)}})
  ELSE [heap |-> h, vecs |-> v, vec |-> h[self].children, cloned |-> FALSE]

\* insert_sorted with the fast path taken whatever the last child's name.
insert_sorted_push(m, ch, names, new_name, new_entry) ==
  [result |-> "Ok", heap |-> m.heap, cloned |-> m.cloned,
   vecs |-> [m.vecs EXCEPT ![m.vec].items = Append(ch, new_entry)]]

\* insert_sorted with the binary search's Ok(_) arm inserting at the match.
insert_sorted_dup(m, ch, names, new_name, new_entry) ==
  IF (IF Len(ch) = 0 THEN TRUE ELSE Less(names[Len(ch)], new_name))
  THEN [result |-> "Ok", heap |-> m.heap, cloned |-> m.cloned,
        vecs |-> [m.vecs EXCEPT ![m.vec].items = Append(ch, new_entry)]]
  ELSE Only({[result |-> "Ok", heap |-> m.heap, cloned |-> m.cloned,
              vecs |-> [m.vecs EXCEPT
                          ![m.vec].items = vec_insert(ch, r.index, new_entry)]] :
               r \in {binary_search_by(names, new_name)}})

\* The body of insert on the Vec make_mut returned: push when the new name
\* sorts after the last child's, else binary search and Vec::insert.
insert_sorted(m, ch, names, new_name, new_entry) ==
  IF (IF Len(ch) = 0 THEN TRUE ELSE Less(names[Len(ch)], new_name))
  THEN [result |-> "Ok", heap |-> m.heap, cloned |-> m.cloned,
        vecs |-> [m.vecs EXCEPT ![m.vec].items = Append(ch, new_entry)]]
  ELSE Only({IF r.found
             THEN [result |-> "Err", heap |-> m.heap, cloned |-> m.cloned, vecs |-> m.vecs]
             ELSE [result |-> "Ok", heap |-> m.heap, cloned |-> m.cloned,
                   vecs |-> [m.vecs EXCEPT
                               ![m.vec].items = vec_insert(ch, r.index, new_entry)]] :
               r \in {binary_search_by(names, new_name)}})

\* insert with the File arm answering Ok.
insert_file_ok(h, v, sn, self, new_entry) ==
  IF is_dir(h, self)
  THEN Only({insert_sorted(m, m.vecs[m.vec].items,
                           [i \in 1..Len(m.vecs[m.vec].items) |->
                              name(h, m.vecs[m.vec].items[i])],
                           name(h, new_entry), new_entry) :
               m \in {make_mut(h, v, sn, self)}})
  ELSE [result |-> "Ok", heap |-> h, vecs |-> v, cloned |-> FALSE]

\* Entry::insert: the result and the memory afterwards.
insert(h, v, sn, self, new_entry) ==
  IF is_dir(h, self)
  THEN Only({insert_sorted(m, m.vecs[m.vec].items,
                           [i \in 1..Len(m.vecs[m.vec].items) |->
                              name(h, m.vecs[m.vec].items[i])],
                           name(h, new_entry), new_entry) :
               m \in {make_mut(h, v, sn, self)}})
  ELSE [result |-> "Err", heap |-> h, vecs |-> v, cloned |-> FALSE]

\* ------------------------------------------------- shared ownership
\* One round of following references: the Vecs live directories and
\* snapshots hold, and the entries those Vecs hold.
reach_step(h, v, s) ==
  [nodes |-> s.nodes \cup UNION {{v[a].items[i] : i \in 1..Len(v[a].items)} : a \in s.vecs},
   vecs |-> s.vecs \cup {h[e].children : e \in {f \in s.nodes : is_dir(h, f)}}]

\* Everything reachable from the roots s.
RECURSIVE reach(_, _, _)
reach(h, v, s) ==
  Only({IF t = s THEN s ELSE reach(h, v, t) : t \in {reach_step(h, v, s)}})

\* Where the Vec at address a is kept: a directory's current Vec under the
\* directory's own number, a Vec only snapshots still hold under the number
\* of the first reader holding it.  No operation of Entry exposes the
\* address of a Vec, so the numbering is immaterial; keeping it canonical
\* keeps states that differ only in it from being told apart.
vec_home(h, sn, a) ==
  IF \E e \in NodeIds : IsLive(h, e) /\ is_dir(h, e) /\ h[e].children = a
  THEN CHOOSE e \in NodeIds : IsLive(h, e) /\ is_dir(h, e) /\ h[e].children = a
  ELSE MaxNodes + (CHOOSE r \in Readers :
                     sn[r].vec = a /\ \A q \in 1..(r - 1) : sn[q].vec # a)

\* The memory with the entries and Vecs outside s freed, every Vec kept
\* at its home.
settle(h, v, sn, s) ==
  Only({[heap |-> [e \in NodeIds |->
                     IF is_dir(h1, e) THEN [h1[e] EXCEPT !.children = e] ELSE h1[e]],
         vecs |-> [b \in VecIds |->
                     IF \E a \in s.vecs : vec_home(h1, sn, a) = b
                     THEN v[CHOOSE a \in s.vecs : vec_home(h1, sn, a) = b]
                     ELSE NoVec],
         snaps |-> [r \in Readers |->
                     IF sn[r].vec = 0 THEN sn[r]
                     ELSE [sn[r] EXCEPT !.vec = vec_home(h1, sn, sn[r].vec)]]] :
          h1 \in {[e \in NodeIds |-> IF e \in s.nodes THEN h[e] ELSE NoNode]}})

\* Arc drop: what no strong reference reaches any more is freed.
release(h, v, hd, sn) ==
  Only({settle(h, v, sn, s) :
          s \in {reach(h, v, [nodes |-> {TreeRoot} \cup hd,
                              vecs |-> {sn[r].vec : r \in Readers} \ {0}])}})

\* The entries below e, e included.
subtree(h, v, e) == reach(h, v, [nodes |-> {e}, vecs |-> {}]).nodes

\* ------------------------------------------------ values and equality
\* The tree an Entry handle shows, each directory read through its lock.
RECURSIVE View(_, _, _)
View(h, v, e) ==
  IF is_dir(h, e)
  THEN [kind |-> "Dir", name |-> h[e].name, name_chars |-> h[e].name_chars,
        children |-> [i \in 1..Len(child_entries(h, v, e)) |->
                        View(h, v, child_entries(h, v, e)[i])],
        symlink |-> h[e].symlink, ignored |-> h[e].ignored]
  ELSE h[e]

\* impl PartialEq for Entry; children() is None for a file.
RECURSIVE eq(_, _)
eq(a, b) ==
  /\ a.name = b.name
  /\ a.name_chars = b.name_chars
  /\ (a.kind = "Dir") = (b.kind = "Dir")
  /\ a.ignored = b.ignored
  /\ IF a.kind = "Dir" /\ b.kind = "Dir"
     THEN /\ Len(a.children) = Len(b.children)
          /\ \A i \in 1..Len(a.children) : eq(a.children[i], b.children[i])
     ELSE a.kind # "Dir" /\ b.kind # "Dir"

\* -------------------------------------------------------------- codec
\* The serde form of an Entry: the variant and the fields its derive emits.
RECURSIVE serialize(_)
RECURSIVE deserialize(_)

\* serialize_dir_children: the Vec read through the lock, each entry encoded.
serialize_dir_children(ch) == [i \in 1..Len(ch) |-> serialize(ch[i])]

\* DirInner's derived Serialize: name_chars is skipped.
serialize_dir(d) ==
  [variant |-> "Dir", name |-> d.name, children |-> serialize_dir_children(d.children),
   symlink |-> d.symlink, ignored |-> d.ignored]

\* FileInner's derived Serialize: every field of the struct.
serialize_file(f) ==
  [variant |-> "File", name |-> f.name, name_chars |-> f.name_chars,
   symlink |-> f.symlink, ignored |-> f.ignored]

serialize(e) == IF e.kind = "Dir" THEN serialize_dir(e) ELSE serialize_file(e)

\* deserialize_dir_children: a new Vec of the decoded entries.
deserialize_dir_children(ws) == [i \in 1..Len(ws) |-> deserialize(ws[i])]

\* deserialize_dir with the separator not pushed.
deserialize_dir_no_separator(w) ==
  [kind |-> "Dir", name |-> w.name, name_chars |-> to_string_lossy(w.name),
   children |-> deserialize_dir_children(w.children),
   symlink |-> w.symlink, ignored |-> w.ignored]

\* deserialize_dir: the derived Deserialize leaves name_chars at its default,
\* then name_chars is rebuilt from the name and the separator pushed.
deserialize_dir(w) ==
  LET inner == [kind |-> "Dir", name |-> w.name, name_chars |-> <<>>,
                children |-> deserialize_dir_children(w.children),
                symlink |-> w.symlink, ignored |-> w.ignored]
  IN [inner EXCEPT !.name_chars = Append(to_string_lossy(inner.name), Separator)]

\* deserialize_file keeping the name_chars it read off the input.
deserialize_file_trusts_input(w) ==
  [kind |-> "File", name |-> w.name, name_chars |-> w.name_chars,
   symlink |-> w.symlink, ignored |-> w.ignored]

\* deserialize_file: the derived Deserialize reads name_chars off the input,
\* then name_chars is rebuilt from the name.
deserialize_file(w) ==
  LET inner == [kind |-> "File", name |-> w.name, name_chars |-> w.name_chars,
                symlink |-> w.symlink, ignored |-> w.ignored]
  IN [inner EXCEPT !.name_chars = to_string_lossy(inner.name)]

deserialize(w) == IF w.variant = "Dir" THEN deserialize_dir(w) ELSE deserialize_file(w)

\* ----------------------------------------------------- TreeService (pure)
\* Tree::root of the served tree, as a value.
tree_root(h, v) == View(h, v, TreeRoot)

\* state answering with the root itself, children and all.
state_root(h, v) == tree_root(h, v)

\* TreeService::state: a new empty directory carrying the root's name and flags.
state(h, v) ==
  [kind |-> "Dir", name |-> name(h, TreeRoot),
   name_chars |-> Append(to_string_lossy(name(h, TreeRoot)), Separator),
   children |-> <<>>,
   symlink |-> is_symlink(h, TreeRoot), ignored |-> is_ignored(h, TreeRoot)]

\* Polling the future Tree::populated returned.
populated_poll(p) == IF p = "ready" THEN "Ready" ELSE IF p = "failed" THEN "Err" ELSE "NotReady"

\* poll_update taking a failed signal for one that is still pending.
poll_update_err_not_ready(svc, p, h, v) ==
  IF svc = "Some"
  THEN IF populated_poll(p) = "Ready"
       THEN [result |-> "Ready", service |-> "None", update |-> Some(tree_root(h, v))]
       ELSE [result |-> "NotReady", service |-> "Some", update |-> None]
  ELSE [result |-> "NotReady", service |-> svc, update |-> None]

\* poll_update with self.populated.take() left out.
poll_update_no_take(svc, p, h, v) ==
  IF svc = "Some"
  THEN IF populated_poll(p) = "Err"
       THEN [result |-> "Panic", service |-> "Aborted", update |-> None]
       ELSE IF populated_poll(p) = "Ready"
            THEN [result |-> "Ready", service |-> "Some", update |-> Some(tree_root(h, v))]
            ELSE [result |-> "NotReady", service |-> "Some", update |-> None]
  ELSE [result |-> "NotReady", service |-> svc, update |-> None]

\* poll_update yielding the root without looking at what the future's poll said.
poll_update_eager(svc, p, h, v) ==
  IF svc = "Some"
  THEN IF populated_poll(p) = "Err"
       THEN [result |-> "Panic", service |-> "Aborted", update |-> None]
       ELSE [result |-> "Ready", service |-> "None", update |-> Some(tree_root(h, v))]
  ELSE [result |-> "NotReady", service |-> svc, update |-> None]

\* TreeService::poll_update: what it returns and what it leaves in
\* self.populated.  The unwrap panics when the future failed.
poll_update(svc, p, h, v) ==
  IF svc = "Some"
  THEN IF populated_poll(p) = "Err"
       THEN [result |-> "Panic", service |-> "Aborted", update |-> None]
       ELSE IF populated_poll(p) = "Ready"
            THEN [result |-> "Ready", service |-> "None", update |-> Some(tree_root(h, v))]
            ELSE [result |-> "NotReady", service |-> "Some", update |-> None]
  ELSE [result |-> "NotReady", service |-> svc, update |-> None]

\* -------------------------------------------------------------- state
NoValue == [kind |-> "None"]
NoCall == [op |-> "none", self |-> 0, arg |-> <<>>, result |-> "none", before |-> None,
           value |-> NoValue, cloned |-> FALSE, dropped |-> {}]
NoWriter == [pc |-> "idle", self |-> 0, new_entry |-> 0, index |-> 0, spill |-> 0,
             result |-> "none"]
NoReader == [pc |-> "idle", of |-> 0]
NoMirror == [live |-> FALSE, root |-> NoNode, updates |-> 0, borrow |-> "none"]
NoTasks == [handler |-> 0, update |-> NoValue, applied |-> 0, subscribed |-> FALSE, seen |-> 0]

InitWith(flags) ==
  /\ \E f \in flags :
       heap = [e \in NodeIds |-> IF e = TreeRoot THEN DirInner(RootName, f[1], f[2], 1)
                                 ELSE NoNode]
  /\ vecs = [a \in VecIds |-> IF a = 1 THEN [live |-> TRUE, items |-> <<>>] ELSE NoVec]
  /\ held = {}
  /\ snaps = [r \in Readers |-> NoSnap]
  /\ call = NoCall
  /\ populated = "pending"
  /\ service = "absent"
  /\ wire = <<>>
  /\ mirror = NoMirror
  /\ lock = [e \in NodeIds |-> "free"]
  /\ writer = NoWriter
  /\ reader = NoReader
  /\ tasks = NoTasks
  /\ hist = [delivered |-> 0, readyPolls |-> 0, atPopulated |-> None, atPoll |-> None,
             roots |-> <<>>, connectedPending |-> FALSE, lateService |-> FALSE,
             versions |-> <<<<>>>>, seen |-> <<>>]

Init == InitWith(RootFlags)

HasFreeNode == \E e \in NodeIds : ~IsLive(heap, e)

\* ------------------------------------------------------ Entry actions
\* Entry::file(name, symlink, ignored)
EntryFile(nm, s, i) ==
  /\ HasFreeNode
  /\ \E e \in {AllocNode(heap)} :
        /\ heap' = [heap EXCEPT ![e] = FileInner(nm, s, i)]
        /\ held' = held \cup {e}
        /\ call' = NoCall
  /\ UNCHANGED <<vecs, snaps, populated, service, wire, mirror, hist, lock, writer, reader,
                 tasks>>

\* Entry::dir(name, symlink, ignored)
EntryDir(nm, s, i) ==
  /\ HasFreeNode
  /\ \E e \in {AllocNode(heap)}, a \in {AllocVec(vecs)} :
     \E m \in {release([heap EXCEPT ![e] = DirInner(nm, s, i, a)],
                       [vecs EXCEPT ![a] = [live |-> TRUE, items |-> <<>>]],
                       held \cup {e}, snaps)} :
        /\ heap' = m.heap
        /\ vecs' = m.vecs
        /\ snaps' = m.snaps
        /\ held' = held \cup {e}
        /\ call' = NoCall
  /\ UNCHANGED <<populated, service, wire, mirror, hist, lock, writer, reader, tasks>>

\* self.insert(new_entry): new_entry is moved in; on Err it is dropped.
\* The caller passes an entry it built, and never a directory into itself
\* or into one of its own descendants.
EntryInsert(self, new_entry) ==
  /\ IsLive(heap, self)
  /\ new_entry \in held
  /\ self \notin subtree(heap, vecs, new_entry)
  /\ \E r \in {insert(heap, vecs, snaps, self, new_entry)} :
     \E m \in {release(r.heap, r.vecs, held \ {new_entry}, snaps)} :
        /\ heap' = m.heap
        /\ vecs' = m.vecs
        /\ snaps' = m.snaps
        /\ held' = held \ {new_entry}
        /\ call' = [op |-> "insert", self |-> self, arg |-> name(heap, new_entry),
                    result |-> r.result,
                    before |-> IF is_dir(heap, self)
                               THEN Some(child_entries(heap, vecs, self)) ELSE None,
                    value |-> NoValue,
                    cloned |-> r.cloned,
                    dropped |-> {e \in NodeIds : IsLive(heap, e) /\ ~IsLive(m.heap, e)}]
  /\ UNCHANGED <<populated, service, wire, mirror, hist, lock, writer, reader, tasks>>

\* A reader calls e.children() and keeps the snapshot it gets.
EntryChildren(r, e) ==
  /\ snaps[r] = NoSnap
  /\ IsLive(heap, e)
  /\ snaps' = IF children(heap, e).some
              THEN [snaps EXCEPT ![r] = [vec |-> children(heap, e).val, of |-> e,
                                         taken |-> child_entries(heap, vecs, e)]]
              ELSE snaps
  /\ call' = NoCall
  /\ UNCHANGED <<heap, vecs, held, populated, service, wire, mirror, hist, lock, writer, reader,
                 tasks>>

\* A reader drops the snapshot it holds.
DropSnapshot(r) ==
  /\ snaps[r] # NoSnap
  /\ \E m \in {release(heap, vecs, held, [snaps EXCEPT ![r] = NoSnap])} :
        /\ snaps' = m.snaps
        /\ heap' = m.heap
        /\ vecs' = m.vecs
  /\ call' = NoCall
  /\ UNCHANGED <<held, populated, service, wire, mirror, hist, lock, writer, reader, tasks>>

\* A caller serializes the entry e (serde, as the transport and the tests do).
Serialize(e) ==
  /\ IsLive(heap, e)
  /\ call' = [NoCall EXCEPT !.op = "serialize", !.self = e,
                            !.value = serialize(View(heap, vecs, e))]
  /\ UNCHANGED <<heap, vecs, held, snaps, populated, service, wire, mirror, hist, lock, writer, reader,
                 tasks>>

\* The caller deserializes what it has just serialized.
Deserialize ==
  /\ call.op = "serialize"
  /\ call' = [NoCall EXCEPT !.op = "deserialize", !.self = call.self,
                            !.value = deserialize(call.value)]
  /\ UNCHANGED <<heap, vecs, held, snaps, populated, service, wire, mirror, hist, lock, writer, reader,
                 tasks>>

\* A caller deserializes input that did not come from serialize.
DeserializeInput(i) ==
  /\ call' = [NoCall EXCEPT !.op = "deserialize_input", !.arg = <<i>>,
                            !.value = deserialize(WireInputs[i])]
  /\ UNCHANGED <<heap, vecs, held, snaps, populated, service, wire, mirror, hist, lock, writer, reader,
                 tasks>>

\* ------------------------------------------------- replication actions
\* The owner of the tree signals that the initial load has finished.
SetPopulated ==
  /\ populated = "pending"
  /\ populated' = "ready"
  /\ hist' = [hist EXCEPT !.atPopulated = Some(tree_root(heap, vecs))]
  /\ call' = [NoCall EXCEPT !.op = "set_populated"]
  /\ UNCHANGED <<heap, vecs, held, snaps, service, wire, mirror, lock, writer, reader, tasks>>

\* The populated future resolves with an error.
FailPopulated ==
  /\ populated = "pending"
  /\ populated' = "failed"
  /\ call' = [NoCall EXCEPT !.op = "fail_populated"]
  /\ UNCHANGED <<heap, vecs, held, snaps, service, wire, mirror, hist, lock, writer, reader,
                 tasks>>

\* TreeService::new keeping no future when the tree is populated already.
TreeServiceNewSkipsResolved ==
  /\ service = "absent"
  /\ service' = IF populated = "ready" THEN "None" ELSE "Some"
  /\ hist' = [hist EXCEPT !.lateService = (populated = "ready")]
  /\ call' = [NoCall EXCEPT !.op = "TreeService::new"]
  /\ UNCHANGED <<heap, vecs, held, snaps, populated, wire, mirror, lock, writer, reader, tasks>>

\* TreeService::new: the service keeps the future tree.populated() returns.
TreeServiceNew ==
  /\ service = "absent"
  /\ service' = "Some"
  /\ hist' = [hist EXCEPT !.lateService = (populated = "ready")]
  /\ call' = [NoCall EXCEPT !.op = "TreeService::new"]
  /\ UNCHANGED <<heap, vecs, held, snaps, populated, wire, mirror, lock, writer, reader, tasks>>

\* RemoteTree::new: one round trip for the service's state, which becomes
\* the cached root; the update handler is spawned.
RemoteTreeNew ==
  /\ service # "absent"
  /\ ~mirror.live
  /\ LET st == state(heap, vecs)
         root == deserialize(serialize(st))
     IN /\ mirror' = [live |-> TRUE, root |-> root, updates |-> 0, borrow |-> "none"]
        /\ hist' = [hist EXCEPT !.roots = <<root>>,
                                 !.connectedPending = (populated = "pending")]
        /\ call' = [NoCall EXCEPT !.op = "RemoteTree::new", !.value = st]
  /\ UNCHANGED <<heap, vecs, held, snaps, populated, service, wire, lock, writer, reader, tasks>>

\* The transport polls the service; an update it gets is encoded and sent.
PollUpdate ==
  /\ service \in {"Some", "None"}
  /\ hist.delivered < MaxUpdates
  /\ LET r == poll_update(service, populated, heap, vecs)
     IN /\ service' = r.service
        /\ wire' = IF r.update.some THEN Append(wire, serialize(r.update.val)) ELSE wire
        /\ hist' = [hist EXCEPT
                      !.delivered = IF r.update.some THEN @ + 1 ELSE @,
                      !.readyPolls = IF populated = "ready" /\ @ < 2 THEN @ + 1 ELSE @,
                      !.atPoll = IF r.update.some THEN r.update ELSE @]
        /\ call' = [NoCall EXCEPT !.op = "poll_update", !.arg = <<populated, service>>,
                                  !.result = r.result]
  /\ UNCHANGED <<heap, vecs, held, snaps, populated, mirror, lock, writer, reader, tasks>>

\* The closure setting the NotifyCell and leaving the cached root as it was.
HandleUpdateKeepsRoot ==
  /\ mirror.live
  /\ wire # <<>>
  /\ mirror' = [mirror EXCEPT !.updates = @ + 1]
  /\ wire' = Tail(wire)
  /\ call' = [NoCall EXCEPT !.op = "update"]
  /\ UNCHANGED <<heap, vecs, held, snaps, populated, service, hist, lock, writer, reader, tasks>>

\* The closure RemoteTree::new passes to for_each, run for one incoming
\* update: the cached root is replaced, then the NotifyCell is set.
HandleUpdate ==
  /\ mirror.live
  /\ wire # <<>>
  /\ LET root == deserialize(Head(wire))
     IN /\ mirror' = [mirror EXCEPT !.root = root, !.updates = @ + 1]
        /\ hist' = [hist EXCEPT
                      !.roots = IF root = mirror.root THEN @ ELSE Append(@, root)]
  /\ wire' = Tail(wire)
  /\ call' = [NoCall EXCEPT !.op = "update"]
  /\ UNCHANGED <<heap, vecs, held, snaps, populated, service, lock, writer, reader, tasks>>

\* ----------------------------- the mirror's foreground tasks, by steps
\* The statements of the closure RemoteTree::new passes to for_each, in the
\* order they run.
closure_notify_first == <<"borrow_mut", "notify", "set_root", "return">>
closure == <<"borrow_mut", "set_root", "notify", "return">>

\* The foreground executor runs one task at a time, and a task keeps
\* running until it returns or awaits: the subscriber runs only while the
\* handler is not inside the closure.
SubscriberMayRun == tasks.handler = 0

\* for_each takes the next update off the stream and calls the closure.
HandlerReceive ==
  /\ mirror.live
  /\ wire # <<>>
  /\ tasks.handler = 0
  /\ tasks' = [tasks EXCEPT !.handler = 1, !.update = deserialize(Head(wire))]
  /\ wire' = Tail(wire)
  /\ UNCHANGED <<heap, vecs, held, snaps, call, populated, service, mirror, hist,
                 lock, writer, reader>>

\* let mut state = state_clone.borrow_mut();
HandlerBorrowMut ==
  /\ tasks.handler > 0 /\ closure[tasks.handler] = "borrow_mut"
  /\ mirror.borrow = "none"
  /\ mirror' = [mirror EXCEPT !.borrow = "mut"]
  /\ tasks' = [tasks EXCEPT !.handler = @ + 1]
  /\ UNCHANGED <<heap, vecs, held, snaps, call, populated, service, wire, hist,
                 lock, writer, reader>>

\* state.root = root;
HandlerSetRoot ==
  /\ tasks.handler > 0 /\ closure[tasks.handler] = "set_root"
  /\ mirror' = [mirror EXCEPT !.root = tasks.update]
  /\ hist' = [hist EXCEPT !.roots = IF tasks.update = mirror.root THEN @
                                     ELSE Append(@, tasks.update)]
  /\ tasks' = [tasks EXCEPT !.handler = @ + 1, !.applied = @ + 1]
  /\ UNCHANGED <<heap, vecs, held, snaps, call, populated, service, wire,
                 lock, writer, reader>>

\* state.updates.set(()): the NotifyCell takes a new version; observers are
\* woken, none is run.
HandlerNotify ==
  /\ tasks.handler > 0 /\ closure[tasks.handler] = "notify"
  /\ mirror' = [mirror EXCEPT !.updates = @ + 1]
  /\ tasks' = [tasks EXCEPT !.handler = @ + 1]
  /\ UNCHANGED <<heap, vecs, held, snaps, call, populated, service, wire, hist,
                 lock, writer, reader>>

\* The closure returning with the RefMut still held.
HandlerReturnKeepsBorrow ==
  /\ tasks.handler > 0 /\ closure[tasks.handler] = "return"
  /\ tasks' = [tasks EXCEPT !.handler = 0, !.update = NoValue]
  /\ UNCHANGED <<heap, vecs, held, snaps, call, populated, service, wire, mirror, hist,
                 lock, writer, reader>>

\* Ok(()): the closure returns and the RefMut is dropped.
HandlerReturn ==
  /\ tasks.handler > 0 /\ closure[tasks.handler] = "return"
  /\ mirror' = [mirror EXCEPT !.borrow = "none"]
  /\ tasks' = [tasks EXCEPT !.handler = 0, !.update = NoValue]
  /\ UNCHANGED <<heap, vecs, held, snaps, call, populated, service, wire, hist,
                 lock, writer, reader>>

\* A local subscriber calls RemoteTree::updates: self.0.borrow(), observe().
SubscriberUpdates ==
  /\ SubscriberMayRun
  /\ mirror.live
  /\ ~tasks.subscribed
  /\ tasks' = [tasks EXCEPT !.subscribed = (mirror.borrow = "none"), !.seen = mirror.updates]
  /\ call' = [NoCall EXCEPT !.op = "updates", !.arg = <<mirror.updates>>,
                            !.result = IF mirror.borrow = "mut" THEN "BorrowError" ELSE "Ok"]
  /\ UNCHANGED <<heap, vecs, held, snaps, populated, service, wire, mirror, hist,
                 lock, writer, reader>>

\* The subscriber's stream yields: the NotifyCell has a version it has not seen.
SubscriberNext ==
  /\ SubscriberMayRun
  /\ tasks.subscribed
  /\ mirror.updates > tasks.seen
  /\ tasks' = [tasks EXCEPT !.seen = mirror.updates]
  /\ call' = [NoCall EXCEPT !.op = "next", !.arg = <<mirror.updates>>]
  /\ UNCHANGED <<heap, vecs, held, snaps, populated, service, wire, mirror, hist,
                 lock, writer, reader>>

\* The subscriber calls RemoteTree::root: self.0.borrow().root.clone()
SubscriberRoot ==
  /\ SubscriberMayRun
  /\ mirror.live
  /\ call' = [NoCall EXCEPT !.op = "root", !.arg = <<tasks.seen>>,
                            !.result = IF mirror.borrow = "mut" THEN "BorrowError" ELSE "Ok",
                            !.value = mirror.root]
  /\ UNCHANGED <<heap, vecs, held, snaps, populated, service, wire, mirror, hist,
                 lock, writer, reader, tasks>>

\* ------------------------------- Entry::insert and children, by steps
\* The writer thread and the reader thread run these on their own; the
\* directory's RwLock is all that orders them.
ChildNames(h, v, e) ==
  [i \in 1..Len(child_entries(h, v, e)) |-> name(h, child_entries(h, v, e)[i])]

\* insert: inner.children.write()
InsertLock(self, new_entry) ==
  /\ writer.pc = "idle"
  /\ IsLive(heap, self) /\ is_dir(heap, self)
  /\ new_entry \in held
  /\ self \notin subtree(heap, vecs, new_entry)
  /\ write(lock[self])
  /\ lock' = [lock EXCEPT ![self] = "write"]
  /\ writer' = [NoWriter EXCEPT !.pc = "locked", !.self = self, !.new_entry = new_entry]
  /\ UNCHANGED <<heap, vecs, held, snaps, call, populated, service, wire, mirror, hist, reader,
                 tasks>>

\* insert: Arc::make_mut(&mut children)
InsertMakeMut ==
  /\ writer.pc = "locked"
  /\ \E c \in {make_mut(heap, vecs, snaps, writer.self)} :
     \E m \in {release(c.heap, c.vecs, held, snaps)} :
        /\ heap' = m.heap
        /\ vecs' = m.vecs
        /\ snaps' = m.snaps
  /\ writer' = [writer EXCEPT !.pc = "unique"]
  /\ UNCHANGED <<held, call, populated, service, wire, mirror, hist, lock, reader, tasks>>

\* insert: the fast path, children.push(new_entry)
InsertPush ==
  /\ writer.pc = "unique"
  /\ \E names \in {ChildNames(heap, vecs, writer.self)} :
        IF Len(names) = 0 THEN TRUE
        ELSE Less(names[Len(names)], name(heap, writer.new_entry))
  /\ vecs' = [vecs EXCEPT ![heap[writer.self].children].items = Append(@, writer.new_entry)]
  /\ held' = held \ {writer.new_entry}
  /\ writer' = [writer EXCEPT !.pc = "done", !.result = "Ok"]
  /\ UNCHANGED <<heap, snaps, call, populated, service, wire, mirror, hist, lock, reader, tasks>>

\* insert: binary_search_by answers Ok(_), return Err(())
InsertDuplicate ==
  /\ writer.pc = "unique"
  /\ \E names \in {ChildNames(heap, vecs, writer.self)} :
        /\ Len(names) > 0
        /\ ~Less(names[Len(names)], name(heap, writer.new_entry))
        /\ binary_search_by(names, name(heap, writer.new_entry)).found
  /\ writer' = [writer EXCEPT !.pc = "done", !.result = "Err"]
  /\ UNCHANGED <<heap, vecs, held, snaps, call, populated, service, wire, mirror, hist,
                 lock, reader, tasks>>

\* insert: binary_search_by answers Err(index); Vec::insert copies the
\* elements from index on one slot up.
InsertShift ==
  /\ writer.pc = "unique"
  /\ \E names \in {ChildNames(heap, vecs, writer.self)} :
        /\ Len(names) > 0
        /\ ~Less(names[Len(names)], name(heap, writer.new_entry))
        /\ \E r \in {binary_search_by(names, name(heap, writer.new_entry))} :
              /\ ~r.found
              /\ \E s \in {child_entries(heap, vecs, writer.self)} :
                    /\ vecs' = [vecs EXCEPT ![heap[writer.self].children].items =
                                               vec_insert_shifted(s, r.index)]
                    /\ held' = held \cup {s[Len(s)]}
                    /\ writer' = [writer EXCEPT !.pc = "shifted", !.index = r.index,
                                                !.spill = s[Len(s)]]
  /\ UNCHANGED <<heap, snaps, call, populated, service, wire, mirror, hist, lock, reader, tasks>>

\* Vec::insert writes the new entry into the slot it freed.
InsertWrite ==
  /\ writer.pc = "shifted"
  /\ vecs' = [vecs EXCEPT ![heap[writer.self].children].items[writer.index + 1] =
                             writer.new_entry]
  /\ held' = held \ {writer.new_entry}
  /\ writer' = [writer EXCEPT !.pc = "written"]
  /\ UNCHANGED <<heap, snaps, call, populated, service, wire, mirror, hist, lock, reader, tasks>>

\* Vec::insert raises the length: the last element is in sight again.
InsertSetLen ==
  /\ writer.pc = "written"
  /\ vecs' = [vecs EXCEPT ![heap[writer.self].children].items = Append(@, writer.spill)]
  /\ held' = held \ {writer.spill}
  /\ writer' = [writer EXCEPT !.pc = "done", !.result = "Ok"]
  /\ UNCHANGED <<heap, snaps, call, populated, service, wire, mirror, hist, lock, reader, tasks>>

\* insert returns: the write guard is dropped, and on Err the new entry.
InsertUnlock ==
  /\ writer.pc = "done"
  /\ \E m \in {release(heap, vecs, held \ {writer.new_entry}, snaps)} :
        /\ heap' = m.heap
        /\ vecs' = m.vecs
        /\ snaps' = m.snaps
  /\ held' = held \ {writer.new_entry}
  /\ lock' = [lock EXCEPT ![writer.self] = "free"]
  /\ hist' = [hist EXCEPT !.versions = IF writer.result = "Ok"
                                        THEN Append(@, child_entries(heap, vecs, writer.self))
                                        ELSE @]
  /\ writer' = NoWriter
  /\ UNCHANGED <<call, populated, service, wire, mirror, reader, tasks>>

\* children: inner.children.read()
ChildrenLock(r, e) ==
  /\ reader.pc = "idle"
  /\ snaps[r] = NoSnap
  /\ IsLive(heap, e) /\ is_dir(heap, e)
  /\ read(lock[e])
  /\ lock' = [lock EXCEPT ![e] = IF @ = "free" THEN "read" ELSE @]
  /\ reader' = [pc |-> "locked", of |-> e]
  /\ UNCHANGED <<heap, vecs, held, snaps, call, populated, service, wire, mirror, hist,
                 writer, tasks>>

\* children: .clone() of the Arc the lock holds; the read guard is dropped.
ChildrenClone(r) ==
  /\ reader.pc = "locked"
  /\ snaps' = [snaps EXCEPT ![r] = [vec |-> heap[reader.of].children, of |-> reader.of,
                                     taken |-> child_entries(heap, vecs, reader.of)]]
  /\ hist' = [hist EXCEPT !.seen = child_entries(heap, vecs, reader.of)]
  /\ lock' = [lock EXCEPT ![reader.of] = IF @ = "read" THEN "free" ELSE @]
  /\ reader' = NoReader
  /\ UNCHANGED <<heap, vecs, held, call, populated, service, wire, mirror, writer, tasks>>

\* --------------------------------------------------------------- spec
LiveNodes == {e \in NodeIds : IsLive(heap, e)}

\* The caller builds one entry at a time, inserting it before it builds the
\* next, and keeps the tree within n entries.
MayBuild(n) == held = {} /\ Cardinality(LiveNodes) < n

\* The Entry tree alone: construction, insert and snapshots.
NextEntry ==
  \/ \E nm \in EntryNames, f \in EntryFlags :
        MayBuild(MaxNodes) /\ EntryFile(nm, f[1], f[2])
  \/ \E nm \in EntryNames, f \in EntryFlags :
        MayBuild(MaxNodes) /\ EntryDir(nm, f[1], f[2])
  \/ \E self \in NodeIds, new_entry \in NodeIds : EntryInsert(self, new_entry)
  \/ \E r \in Readers, e \in NodeIds : EntryChildren(r, e)
  \/ \E r \in Readers : DropSnapshot(r)

SpecEntry == InitWith(EntryFlags) /\ [][NextEntry]_vars

\* A writer thread inserting into a directory while a reader thread takes
\* and drops snapshots of it.
NextConc ==
  \/ \E nm \in EntryNames, f \in EntryFlags :
        MayBuild(MaxNodes) /\ writer.pc = "idle" /\ EntryFile(nm, f[1], f[2])
  \/ \E self \in NodeIds, new_entry \in NodeIds : InsertLock(self, new_entry)
  \/ InsertMakeMut
  \/ InsertPush
  \/ InsertDuplicate
  \/ InsertShift
  \/ InsertWrite
  \/ InsertSetLen
  \/ InsertUnlock
  \/ \E r \in Readers, e \in NodeIds : ChildrenLock(r, e)
  \/ \E r \in Readers : ChildrenClone(r)
  \/ \E r \in Readers : DropSnapshot(r)

SpecConc == InitWith(EntryFlags) /\ [][NextConc]_vars

\* The mirror's side of replication: the update handler statement by
\* statement, and a local subscriber of updates() reading root().
NextMirror ==
  \/ \E nm \in ReplNames, f \in EntryFlags :
        MayBuild(MaxTree) /\ EntryFile(nm, f[1], f[2])
  \/ \E self \in NodeIds, new_entry \in NodeIds : EntryInsert(self, new_entry)
  \/ SetPopulated
  \/ TreeServiceNew
  \/ RemoteTreeNew
  \/ PollUpdate
  \/ HandlerReceive
  \/ HandlerBorrowMut
  \/ HandlerSetRoot
  \/ HandlerNotify
  \/ HandlerReturn
  \/ SubscriberUpdates
  \/ SubscriberNext
  \/ SubscriberRoot

SpecMirror == InitWith(EntryFlags) /\ [][NextMirror]_vars

\* The codec: trees are built, then serialized and deserialized.
NextCodec ==
  \/ \E nm \in CodecNames, f \in CodecFlags :
        MayBuild(MaxTree) /\ EntryFile(nm, f[1], f[2])
  \/ \E nm \in CodecNames, f \in CodecFlags :
        MayBuild(MaxTree) /\ EntryDir(nm, f[1], f[2])
  \/ \E self \in NodeIds, new_entry \in NodeIds : EntryInsert(self, new_entry)
  \/ \E e \in NodeIds : Serialize(e)
  \/ Deserialize
  \/ \E i \in 1..Len(WireInputs) : DeserializeInput(i)

SpecCodec == InitWith(CodecFlags) /\ [][NextCodec]_vars

\* Replication: the owner builds and extends the served tree while a
\* service and a mirror are connected over the transport.
Next ==
  \/ \E nm \in ReplNames, f \in EntryFlags :
        MayBuild(MaxTree) /\ EntryFile(nm, f[1], f[2])
  \/ \E nm \in ReplNames, f \in EntryFlags :
        MayBuild(MaxTree) /\ EntryDir(nm, f[1], f[2])
  \/ \E self \in NodeIds, new_entry \in NodeIds : EntryInsert(self, new_entry)
  \/ SetPopulated
  \/ FailPopulated
  \/ TreeServiceNew
  \/ RemoteTreeNew
  \/ PollUpdate
  \/ HandleUpdate

Spec == Init /\ [][Next]_vars

\* The transport keeps polling the service and delivering what it sent, and
\* the foreground executor keeps running the mirror's handler.
SpecLive ==
  InitWith(EntryFlags) /\ [][Next]_vars /\ WF_vars(PollUpdate) /\ WF_vars(HandleUpdate)

\* ------------------------------------------------- properties: Entry
LiveDirs == {e \in NodeIds : IsLive(heap, e) /\ is_dir(heap, e)}
child_names(e) == [i \in 1..Len(child_entries(heap, vecs, e)) |->
                     name(heap, child_entries(heap, vecs, e)[i])]
InsertedInto(e) == call.op = "insert" /\ call.self = e
BeforeNames == {name(heap, call.before.val[i]) : i \in 1..Len(call.before.val)}

\* C1: after every insert call, Ok or Err, every directory's children are
\* strictly ascending by name (so no two siblings share a name).
C1_ChildrenStrictlySorted ==
  \A e \in LiveDirs :
     \A i \in 1..(Len(child_names(e)) - 1) : Less(child_names(e)[i], child_names(e)[i + 1])

\* C1's case: an Ok insert that put the new entry between two children.
C1_Witness ==
  /\ call.op = "insert" /\ call.result = "Ok"
  /\ Len(child_names(call.self)) = 3
  /\ child_names(call.self)[2] = call.arg

\* C2: insert of a name a child already has returns Err and leaves the
\* directory's children the same entries, in the same order.
C2_DuplicateRejected ==
  (call.op = "insert" /\ call.before.some /\ call.arg \in BeforeNames)
    => /\ call.result = "Err"
       /\ child_entries(heap, vecs, call.self) = call.before.val

\* C2's case: the name is that of a child that is not the last one, while a
\* snapshot of the directory is outstanding.
C2_Witness ==
  /\ call.op = "insert" /\ call.before.some /\ call.result = "Err"
  /\ Len(call.before.val) >= 2
  /\ name(heap, call.before.val[1]) = call.arg
  /\ snaps[1].vec # 0 /\ snaps[1].of = call.self

\* C3: insert on a File returns Err whatever the new entry, the file's
\* children() is None before and after, and every entry but the one handed
\* in (which is dropped) keeps its fields and its children.
C3_FileInsertFails ==
  [][(call'.op = "insert" /\ ~call'.before.some)
       => /\ call'.result = "Err"
          /\ ~children(heap, call'.self).some
          /\ ~children(heap', call'.self).some
          /\ \A e \in NodeIds \ held :
                /\ heap'[e] = heap[e]
                /\ (IsLive(heap, e) /\ is_dir(heap, e))
                     => child_entries(heap', vecs', e) = child_entries(heap, vecs, e)]_vars

\* C3's case: an insert was called on a file of the tree.
C3_Witness ==
  /\ call.op = "insert" /\ ~call.before.some /\ call.result = "Err"
  /\ IsLive(heap, call.self) /\ ~is_dir(heap, call.self)
  /\ \E d \in LiveDirs : \E i \in 1..Len(child_entries(heap, vecs, d)) :
        child_entries(heap, vecs, d)[i] = call.self

\* C4: a snapshot children() returned holds the entries it held when it
\* was returned, whatever inserts the directory has seen since.
C4_SnapshotStable ==
  \A r \in Readers : snaps[r].vec # 0 => vecs[snaps[r].vec].items = snaps[r].taken

\* C4's case: the directory has grown since the snapshot was taken, and the
\* last call was an insert into it that failed.
C4_Witness ==
  /\ snaps[1].vec # 0 /\ snaps[1].of \in LiveDirs
  /\ Len(child_entries(heap, vecs, snaps[1].of)) > Len(snaps[1].taken)
  /\ Len(snaps[1].taken) > 0
  /\ InsertedInto(snaps[1].of) /\ call.result = "Err"

\* ------------------------------------------- properties: replication
RootChildren == child_entries(heap, vecs, TreeRoot)

\* C5: poll_update yields nothing while the signal is pending, the tree's
\* current root on the first poll that finds the signal resolved, and
\* nothing on any later poll: at most one update per connection.
C5_OneUpdatePerConnection ==
  /\ hist.delivered <= 1
  /\ call.op = "poll_update" =>
       /\ call.arg[1] = "pending" => call.result = "NotReady"
       /\ call.arg[1] = "ready" => (call.result = "Ready" <=> hist.readyPolls = 1)
       /\ call.result = "Ready" =>
            /\ wire # <<>>
            /\ wire[Len(wire)] = serialize(tree_root(heap, vecs))

\* C5's case: a poll after the one update was yielded, with the signal
\* resolved and the tree populated, yields nothing.
C5_Witness ==
  /\ call.op = "poll_update" /\ call.result = "NotReady"
  /\ call.arg = <<"ready", "None">>
  /\ hist.delivered = 1 /\ hist.readyPolls = 2
  /\ Len(RootChildren) >= 1

\* C6: state returns a directory with no children that has the root's
\* name, symlink flag and ignored flag, however many children the root
\* has and whether or not the tree is populated.
C6_StateIsEmptyPlaceholder ==
  call.op = "RemoteTree::new" =>
    /\ call.value.kind = "Dir"
    /\ call.value.children = <<>>
    /\ call.value.name = name(heap, TreeRoot)
    /\ call.value.symlink = is_symlink(heap, TreeRoot)
    /\ call.value.ignored = is_ignored(heap, TreeRoot)

\* C6's case: state is asked of a populated tree whose root has two
\* children and flags that differ.
C6_Witness ==
  /\ call.op = "RemoteTree::new"
  /\ populated = "ready"
  /\ Len(RootChildren) = 2
  /\ is_symlink(heap, TreeRoot) /\ ~is_ignored(heap, TreeRoot)

\* Every entry of b, at every depth, has a counterpart by name in a.
RECURSIVE Covers(_, _)
Covers(a, b) ==
  b.kind = "Dir" =>
    /\ a.kind = "Dir"
    /\ \A i \in 1..Len(b.children) : \E j \in 1..Len(a.children) :
          /\ a.children[j].name = b.children[i].name
          /\ Covers(a.children[j], b.children[i])

\* C7 as stated: the mirror shows the placeholder, then at most one other
\* root, and that root is the server's root as it stood when the populated
\* signal resolved.
C7_AsStated ==
  mirror.live =>
    /\ Len(hist.roots) <= 2
    /\ hist.roots[1].children = <<>>
    /\ Len(hist.roots) = 2 =>
         /\ hist.atPopulated.some
         /\ eq(hist.roots[2], hist.atPopulated.val)

\* C7, amended: the mirror shows the placeholder, then at most one other
\* root, and that root is the server's root as it stood at the poll_update
\* that found the signal resolved; it holds every entry the server's root
\* held when the signal resolved.
C7_PlaceholderThenPolledRoot ==
  mirror.live =>
    /\ Len(hist.roots) <= 2
    /\ hist.roots[1].children = <<>>
    /\ Len(hist.roots) = 2 =>
         /\ hist.atPoll.some
         /\ eq(hist.roots[2], hist.atPoll.val)
         /\ hist.atPopulated.some
         /\ Covers(hist.roots[2], hist.atPopulated.val)

\* C7's case: the mirror has replaced the placeholder by a root that has a
\* child the server inserted after the signal resolved.
C7_Witness ==
  /\ mirror.live /\ Len(hist.roots) = 2
  /\ hist.atPopulated.some
  /\ Len(hist.roots[2].children) > Len(hist.atPopulated.val.children)
  /\ Len(hist.atPopulated.val.children) >= 1

\* C8 as stated, its lasting part: once the mirror's updates() has fired,
\* root() equals the server's populated root (as it stood when the signal
\* resolved, or as it stands now).
C8_AsStated ==
  (mirror.live /\ mirror.updates > 0) =>
    \/ hist.atPopulated.some /\ eq(mirror.root, hist.atPopulated.val)
    \/ eq(mirror.root, tree_root(heap, vecs))

\* C8, amended: with a mirror connected and the signal resolved, the
\* mirror's updates() eventually fires, and from then on root() equals the
\* root poll_update yielded when it found the signal resolved.
C8_EventuallyPolledRoot ==
  /\ (mirror.live /\ populated = "ready") ~> (mirror.live /\ mirror.updates > 0)
  /\ []((mirror.live /\ mirror.updates > 0) =>
          (hist.atPoll.some /\ eq(mirror.root, hist.atPoll.val)))

\* C8's case: the signal resolved after the mirror connected, the update
\* has been applied, and root() shows the server's two children.
C8_Witness ==
  /\ mirror.live /\ mirror.updates = 1
  /\ hist.connectedPending
  /\ hist.atPopulated.some /\ hist.atPoll.some
  /\ Len(mirror.root.children) = 2
  /\ eq(mirror.root, hist.atPoll.val)

\* ------------------------------------------------- properties: codec
\* C9: decoding the encoding of any Entry tree yields an Entry equal to
\* the original: name, name_chars, kind, ignored flag, and children equal
\* pairwise in order, at every depth.
C9_RoundTrip ==
  call.op = "deserialize" => eq(call.value, View(heap, vecs, call.self))

\* C9's case: the root is round-tripped while it holds a directory that
\* holds an entry whose name is not valid UTF-8.
C9_Witness ==
  /\ call.op = "deserialize" /\ call.self = TreeRoot
  /\ \E i \in 1..Len(call.value.children) :
        /\ call.value.children[i].kind = "Dir"
        /\ Len(call.value.children[i].children) = 1
        /\ call.value.children[i].children[1].name = <<255>>

\* Whether an encoded entry, or one below it, carries a name_chars field.
RECURSIVE has_name_chars(_)
has_name_chars(w) ==
  \/ "name_chars" \in DOMAIN w
  \/ w.variant = "Dir" /\ \E i \in 1..Len(w.children) : has_name_chars(w.children[i])

\* C10: the serialized form of an Entry never carries name_chars, for the
\* File variant and for the Directory variant.
C10_NameCharsNotSerialized ==
  call.op = "serialize" => ~has_name_chars(call.value)

\* Whether name_chars, in v and below it, is the characters of the name,
\* followed by the separator exactly for a directory.
RECURSIVE NameCharsDerived(_)
NameCharsDerived(v) ==
  /\ v.name_chars = IF v.kind = "Dir" THEN to_string_lossy(v.name) \o <<Separator>>
                                      ELSE to_string_lossy(v.name)
  /\ v.kind = "Dir" => \A i \in 1..Len(v.children) : NameCharsDerived(v.children[i])

\* C11: every Entry, built by Entry::file or Entry::dir or decoded from any
\* input, has name_chars equal to the characters of its name, followed by
\* '/' if and only if it is a directory.
C11_NameCharsFromName ==
  /\ \A e \in LiveNodes : NameCharsDerived(View(heap, vecs, e))
  /\ call.op \in {"deserialize", "deserialize_input"} => NameCharsDerived(call.value)

\* C11's case: a directory was decoded from input holding a file whose
\* encoded name_chars is not the characters of its name.
C11_Witness ==
  /\ call.op = "deserialize_input"
  /\ WireInputs[call.arg[1]].variant = "Dir"
  /\ Len(WireInputs[call.arg[1]].children) = 1
  /\ WireInputs[call.arg[1]].children[1].name_chars
       # to_string_lossy(WireInputs[call.arg[1]].children[1].name)
  /\ call.value.children[1].name = WireInputs[call.arg[1]].children[1].name

\* ---------------------------------------------- properties: identity
\* C12: an instance keeps its id while it exists, and an instance is never
\* given the id another instance had, the instance released by the call
\* before included.
C12_IdNeverGivenTwice ==
  [][\A e \in NodeIds :
        /\ (IsLive(heap, e) /\ IsLive(heap', e)) =>
              (heap'[id(e)].kind = heap[id(e)].kind /\ heap'[id(e)].name = heap[id(e)].name)
        /\ (~IsLive(heap, e) /\ IsLive(heap', e)) => id(e) \notin call.dropped]_vars

\* ------------------------------------- properties: insert, in detail
\* The children of the directory the last insert was called on.
AfterInsert == child_entries(heap, vecs, call.self)
\* Where a reference sorted insertion puts the new name: after every
\* previous child whose name is less.
ReferenceIndex ==
  1 + Cardinality({i \in 1..Len(call.before.val) :
                     Less(name(heap, call.before.val[i]), call.arg)})

\* C13: insert of a name no child has returns Ok; the children grow by
\* exactly one, every previous child keeps its relative order, and the new
\* entry sits where a reference sorted insertion puts it, on the append
\* fast path and on the binary-search path alike.
C13_InsertMatchesReference ==
  (call.op = "insert" /\ call.before.some) =>
    /\ call.result = "Ok" =>
          /\ Len(AfterInsert) = Len(call.before.val) + 1
          /\ \A i \in 1..Len(call.before.val) : \E j \in 1..Len(AfterInsert) :
                AfterInsert[j] = call.before.val[i]
    /\ call.arg \notin BeforeNames =>
          /\ call.result = "Ok"
          /\ name(heap, AfterInsert[ReferenceIndex]) = call.arg
          /\ \A i \in 1..Len(call.before.val) : AfterInsert[ReferenceIndex] # call.before.val[i]
          /\ \A i \in 1..(ReferenceIndex - 1) : AfterInsert[i] = call.before.val[i]
          /\ \A i \in ReferenceIndex..Len(call.before.val) :
                AfterInsert[i + 1] = call.before.val[i]

\* C13's case: the binary-search path put the new entry in front of two
\* children.
C13_Witness ==
  /\ call.op = "insert" /\ call.before.some /\ call.result = "Ok"
  /\ Len(call.before.val) = 2
  /\ ReferenceIndex = 1
  /\ name(heap, AfterInsert[1]) = call.arg

\* C15: insert on a directory copies the children sequence exactly when
\* a children() snapshot still refers to the directory's current sequence
\* at the time of the call; the copy leaves the snapshot's sequence to the
\* snapshot, and without such a snapshot the sole copy is mutated in place.
C15_CopyExactlyWhenShared ==
  [][(call'.op = "insert" /\ call'.before.some) =>
       /\ call'.cloned <=> \E r \in Readers : snaps[r].vec = heap[call'.self].children
       /\ call'.cloned =>
             \E r \in Readers : /\ snaps'[r].vec # 0
                                /\ snaps'[r].vec # heap'[call'.self].children
                                /\ vecs'[snaps'[r].vec].items = call'.before.val
       /\ ~call'.cloned =>
             \A r \in Readers : snaps'[r].vec # heap'[call'.self].children]_vars

\* C15's case: the reader still holds a snapshot of the directory, but of
\* a sequence an earlier insert already left behind, so this insert found
\* the current sequence unshared and mutated it in place.
C15_Witness ==
  /\ call.op = "insert" /\ call.before.some /\ call.result = "Ok" /\ ~call.cloned
  /\ snaps[1].vec # 0 /\ snaps[1].of = call.self
  /\ Len(snaps[1].taken) + 2 = Len(AfterInsert)

\* ----------------------------------------------- properties: handles
\* The entries of the snapshot reader r holds.
SnapshotItems(r) == vecs[snaps[r].vec].items

\* C20: the element for a directory inside a children() snapshot of its
\* parent and the parent's current child of that name are one node: they
\* have the same id and read the same children, whatever was inserted
\* through either since the snapshot was taken.
C20_HandlesShareNode ==
  \A r \in Readers :
    (snaps[r].vec # 0 /\ snaps[r].of \in LiveDirs) =>
      \A i \in 1..Len(SnapshotItems(r)) :
        \A j \in 1..Len(child_entries(heap, vecs, snaps[r].of)) :
          name(heap, SnapshotItems(r)[i]) = name(heap, child_entries(heap, vecs, snaps[r].of)[j])
            => /\ id(SnapshotItems(r)[i]) = id(child_entries(heap, vecs, snaps[r].of)[j])
               /\ children(heap, SnapshotItems(r)[i])
                    = children(heap, child_entries(heap, vecs, snaps[r].of)[j])

\* C20's case: after the parent's snapshot was taken the parent got another
\* child, and then an insert into a directory the snapshot holds succeeded;
\* the snapshot's element reads the new child.
C20_Witness ==
  /\ snaps[1].vec # 0 /\ snaps[1].of \in LiveDirs
  /\ Len(child_entries(heap, vecs, snaps[1].of)) > Len(SnapshotItems(1))
  /\ call.op = "insert" /\ call.before.some /\ call.result = "Ok"
  /\ \E i \in 1..Len(SnapshotItems(1)) :
        /\ SnapshotItems(1)[i] = call.self
        /\ Len(child_entries(heap, vecs, SnapshotItems(1)[i])) = 1

\* --------------------------------- properties: replication, in detail
\* C18: the poll_update that finds the populated signal failed aborts the
\* connection (it answers neither "no update" nor an update), and no update
\* is ever delivered on a connection whose signal failed.
C18_FailedSignalAborts ==
  /\ (call.op = "poll_update" /\ call.arg = <<"failed", "Some">>) =>
        (call.result = "Panic" /\ service = "Aborted")
  /\ (service = "Aborted" \/ populated = "failed") =>
        (hist.delivered = 0 /\ wire = <<>> /\ mirror.updates = 0)

\* C18's case: a mirror is connected to a tree that has children, and the
\* poll that found the signal failed has aborted the connection.
C18_Witness ==
  /\ call.op = "poll_update" /\ call.result = "Panic"
  /\ service = "Aborted" /\ mirror.live
  /\ Len(RootChildren) >= 1

\* C19 as stated, its last part: a mirror served by a TreeService created
\* after the tree was populated has, once updated, a root equal to the
\* server's root.
C19_AsStated ==
  (hist.lateService /\ mirror.live /\ mirror.updates > 0) =>
    eq(mirror.root, tree_root(heap, vecs))

\* C19, amended: for a TreeService created after the tree was populated,
\* state still returns the zero-children placeholder, the first poll_update
\* yields the one update, carrying the root as it stands at that poll, and
\* the mirror's root, once updated, equals that root.
C19_LateServiceOneUpdate ==
  hist.lateService =>
    /\ call.op = "RemoteTree::new" =>
          (call.value.children = <<>> /\ call.value.name = name(heap, TreeRoot))
    /\ (call.op = "poll_update" /\ hist.readyPolls = 1) =>
          /\ call.result = "Ready"
          /\ wire # <<>>
          /\ wire[Len(wire)] = serialize(tree_root(heap, vecs))
    /\ (mirror.live /\ mirror.updates > 0) =>
          (hist.atPoll.some /\ eq(mirror.root, hist.atPoll.val))

\* C19's case: the service was created for a populated tree with two
\* children, and the mirror shows both after its update.
C19_Witness ==
  /\ hist.lateService /\ ~hist.connectedPending
  /\ mirror.live /\ mirror.updates = 1
  /\ Len(mirror.root.children) = 2
  /\ hist.atPopulated.some /\ Len(hist.atPopulated.val.children) = 2

\* ------------------------------------------- properties: concurrency
\* C14: whatever the interleaving of the reader's children() with the
\* writer's insert on one directory, the sequence a snapshot holds is the
\* children as they stood after some completed prefix of the writer's
\* inserts, and a snapshot the reader obtains later is of an equal or
\* longer prefix.
C14_SnapshotsAreCompletedPrefixes ==
  /\ [](\A r \in Readers :
          snaps[r].vec # 0 =>
            \E k \in 1..Len(hist.versions) : SnapshotItems(r) = hist.versions[k])
  /\ [][\A r \in Readers :
          (snaps'[r] # snaps[r] /\ snaps'[r].vec # 0) =>
             /\ Len(snaps'[r].taken) >= Len(hist.seen)
             /\ \A i \in 1..Len(hist.seen) : \E j \in 1..Len(snaps'[r].taken) :
                   snaps'[r].taken[j] = hist.seen[i]]_vars

\* C14's case: the reader holds a snapshot of two children it took before
\* the writer locked the directory, and the writer is midway through
\* Vec::insert on its own copy.
C14_Witness ==
  /\ snaps[1].vec # 0 /\ snaps[1].of = writer.self
  /\ Len(SnapshotItems(1)) = 2
  /\ writer.pc = "written"
  /\ Len(hist.versions) = 3

\* ------------------------------------------ properties: the mirror
\* The root the one update of the connection carries, as the mirror decodes it.
UpdateRoot == deserialize(serialize(hist.atPoll.val))

\* C16: the handler replaces the cached root before it fires the local
\* notification, so a root() call that follows a notification the
\* subscriber observed returns the update's root, never the root before it.
C16_RootReplacedBeforeNotified ==
  /\ mirror.updates <= tasks.applied
  /\ mirror.updates > 0 => (hist.atPoll.some /\ mirror.root = UpdateRoot)
  /\ (call.op = "root" /\ call.arg[1] > 0) =>
        (call.result = "Ok" /\ call.value = UpdateRoot)

\* C16's case: the subscriber observed the notification of an update whose
\* root has two children, then called root().
C16_Witness ==
  /\ call.op = "root" /\ call.arg = <<1>>
  /\ tasks.subscribed
  /\ Len(call.value.children) = 2
  /\ hist.roots[1].children = <<>>

\* C17: root() and updates() never find the cache mutably borrowed: the
\* handler has released its borrow whenever it is not inside the closure,
\* and while it holds the borrow no subscriber code runs, the firing of
\* the notification included.
C17_NoAccessWhileBorrowed ==
  /\ [](tasks.handler = 0 => mirror.borrow = "none")
  /\ [](call.op \in {"root", "updates"} => call.result = "Ok")
  /\ [][mirror.borrow = "mut" =>
          /\ tasks'.seen = tasks.seen
          /\ tasks'.subscribed = tasks.subscribed
          /\ call' # call => call'.op \notin {"root", "updates", "next"}]_vars

\* C17's case: the handler has applied an update and returned, and the
\* subscriber, not yet notified, reads the root.
C17_Witness ==
  /\ call.op = "root" /\ call.arg = <<0>> /\ call.result = "Ok"
  /\ tasks.applied = 1 /\ tasks.handler = 0
  /\ mirror.updates = 1 /\ mirror.borrow = "none"

====
